---- MODULE Spec2Model ----
(***************************************************************************)
(* hstr 0.2 (src/src/hstr.c): the history filter makeSelection and the     *)
(* interactive loop selectionLoop, as a state machine.                     *)
(*                                                                         *)
(* A C string is a sequence of byte values (97 is 'a').  A char* that is   *)
(* NULL is the value NULL below, which is no string.                       *)
(***************************************************************************)
EXTENDS Integers, Sequences, FiniteSets, TLC

VARIABLES
    historyAsString,                    \* hstr: char *historyAsString, the bytes of the history file
    historyFileItems,                   \* char **historyFileItems (most recent first)
    selection,                          \* static char **selection: the entries written
    selectionSize,                      \* static int selectionSize
    argPrefix,                          \* makeSelection: parameter prefix of the last call
    argMaxSelectionCount,               \* makeSelection: parameter maxSelectionCount of the last call
    maxy,                               \* getmaxy(stdscr): rows of the terminal
    prefix,                             \* selectionLoop: char prefix[500]
    selectionCursorPosition,            \* selectionLoop: int selectionCursorPosition
    previousSelectionCursorPosition,    \* selectionLoop: int previousSelectionCursorPosition
    c,                                  \* selectionLoop: int c, the key wgetch returned last
    result,                             \* selectionLoop: char *result
    done                                \* selectionLoop: bool done

vars == <<historyAsString, historyFileItems, selection, selectionSize, argPrefix, argMaxSelectionCount,
          maxy, prefix, selectionCursorPosition, previousSelectionCursorPosition,
          c, result, done>>

(***************************************************************************)
(* Bounds of the model.                                                    *)
(***************************************************************************)
MaxHist == 3            \* history lines, filter specification
MaxLimit == 3           \* maxSelectionCount, filter specification
MaxFragLen == 2         \* bytes of a fragment
MaxSessionHist == 3     \* history lines, session specification
MaxVisible == 3         \* rows for matches the terminal of a session can show
MaxPrefixLen == 2       \* bytes typed into prefix (the buffer holds 500)
MaxFileLen == 4         \* bytes of a history file

(***************************************************************************)
(* Program constants.                                                      *)
(***************************************************************************)
SELECTION_CURSOR_IN_PROMPT == -1
Y_OFFSET_ITEMS == 4
KEY_TERMINAL_RESIZE == 410
KEY_CTRL_A == 1
KEY_CTRL_E == 5
KEY_BACKSPACE == 263
KEY_UP == 259
KEY_DOWN == 258
PREFIX_SIZE == 500

NULL == <<-1>>
EmptyString == <<>>

(***************************************************************************)
(* Input data: bytes, lines and fragments.                                 *)
(***************************************************************************)
Alphabet == {97, 98}

Strings(n) == UNION {[1..k -> Alphabet] : k \in 0..n}

\* The lines a history is drawn from: the empty line; for the fragments "a", "b":
\* a prefix match, a match at a non-zero offset only, both, none; for a fragment
\* of two bytes, a line of three that holds it at offset 1 only.
Lines == { <<>>, <<97>>, <<97, 98>>, <<98, 97>>, <<97, 97>>, <<98, 97, 98>> }

SeqsUpTo(S, n) == UNION {[1..k -> S] : k \in 0..n}

Range(s) == {s[i] : i \in 1..Len(s)}

\* A history file that loads as items: the lines from the last item to the
\* first, a line feed (10) after each.
RECURSIVE FileOf(_)
FileOf(items) ==
    IF items = <<>> THEN <<>>
    ELSE FileOf(Tail(items)) \o Head(items) \o <<10>>

(***************************************************************************)
(* strstr(haystack, needle): the offset of the first occurrence of needle  *)
(* in haystack, -1 for the NULL it returns when there is none.             *)
(***************************************************************************)
OccursAt(haystack, needle, k) ==
    /\ k + Len(needle) <= Len(haystack)
    /\ \A j \in 1..Len(needle) : haystack[k + j] = needle[j]

strstr(haystack, needle) ==
    IF \E k \in 0..Len(haystack) : OccursAt(haystack, needle, k)
    THEN CHOOSE k \in 0..Len(haystack) :
            /\ OccursAt(haystack, needle, k)
            /\ \A m \in 0..(k - 1) : ~OccursAt(haystack, needle, m)
    ELSE -1

(***************************************************************************)
(* include/hashset.h: a set of strings, compared by text.                  *)
(***************************************************************************)
hs_init == {}
hs_contains(set, key) == key \in set
hs_add(set, key) == set \cup {key}

(***************************************************************************)
(* makeSelection                                                           *)
(***************************************************************************)
\* a loop that forgets the limit
LoopIgnoresLimit(i, historyFileItemsCount, selectionCount, maxSelectionCount) ==
    i < historyFileItemsCount

\* both for loops: i<historyFileItemsCount && selectionCount<maxSelectionCount
LoopContinues(i, historyFileItemsCount, selectionCount, maxSelectionCount) ==
    i < historyFileItemsCount /\ selectionCount < maxSelectionCount

\* a first loop that takes a match at any offset
PrefixAcceptsAnywhere(set, item, pfx) ==
    /\ ~hs_contains(set, item)
    /\ \/ pfx = NULL
       \/ strstr(item, pfx) # -1

\* a first loop that does not ask the hash set
PrefixAcceptsRepeated(set, item, pfx) ==
    \/ pfx = NULL
    \/ strstr(item, pfx) = 0

\* the body of the first loop: is historyFileItems[i] selected
PrefixAccepts(set, item, pfx) ==
    /\ ~hs_contains(set, item)
    /\ \/ pfx = NULL
       \/ strstr(item, pfx) = 0

\* a second loop that does not ask the hash set
SubstringAcceptsRepeated(set, item, pfx) ==
    LET substring == strstr(item, pfx)
    IN  substring # -1 /\ substring # 0

\* the body of the second loop: is historyFileItems[i] selected
SubstringAccepts(set, item, pfx) ==
    /\ ~hs_contains(set, item)
    /\ LET substring == strstr(item, pfx)
       IN  substring # -1 /\ substring # 0

\* st = [sel |-> the entries written to selection, set |-> the hash set];
\* i counts from 0 as in the code, items[i + 1] is historyFileItems[i].
RECURSIVE PrefixLoop(_, _, _, _, _)
PrefixLoop(pfx, items, maxSelectionCount, i, st) ==
    IF ~LoopContinues(i, Len(items), Len(st.sel), maxSelectionCount)
    THEN st
    ELSE PrefixLoop(pfx, items, maxSelectionCount, i + 1,
            IF PrefixAccepts(st.set, items[i + 1], pfx)
            THEN [sel |-> Append(st.sel, items[i + 1]),
                  set |-> hs_add(st.set, items[i + 1])]
            ELSE st)

RECURSIVE SubstringLoop(_, _, _, _, _)
SubstringLoop(pfx, items, maxSelectionCount, i, st) ==
    IF ~LoopContinues(i, Len(items), Len(st.sel), maxSelectionCount)
    THEN st
    ELSE SubstringLoop(pfx, items, maxSelectionCount, i + 1,
            IF SubstringAccepts(st.set, items[i + 1], pfx)
            THEN [sel |-> Append(st.sel, items[i + 1]),
                  set |-> hs_add(st.set, items[i + 1])]
            ELSE st)

\* The entries of selection after the call; selectionSize is their number.
makeSelection(pfx, items, maxSelectionCount) ==
    LET first == PrefixLoop(pfx, items, maxSelectionCount, 0,
                            [sel |-> <<>>, set |-> hs_init])
    IN  IF pfx # NULL /\ Len(first.sel) < maxSelectionCount
        THEN SubstringLoop(pfx, items, maxSelectionCount, 0, first).sel
        ELSE first.sel

(***************************************************************************)
(* The filter alone: makeSelection called with any arguments.              *)
(***************************************************************************)
getMaxHistoryItems(rows) == rows - (Y_OFFSET_ITEMS + 2)

InitFilter ==
    /\ historyFileItems \in SeqsUpTo(Lines, MaxHist)
    /\ historyAsString = FileOf(historyFileItems)
    /\ selection = <<>>
    /\ selectionSize = 0
    /\ argPrefix = NULL
    /\ argMaxSelectionCount = 0
    /\ maxy = Y_OFFSET_ITEMS + 2
    /\ prefix = EmptyString
    /\ selectionCursorPosition = SELECTION_CURSOR_IN_PROMPT
    /\ previousSelectionCursorPosition = SELECTION_CURSOR_IN_PROMPT
    /\ c = 0
    /\ result = EmptyString
    /\ done = FALSE

CallMakeSelection ==
    \E pfx \in Strings(MaxFragLen) \cup {NULL}, maxSelectionCount \in 0..MaxLimit :
        /\ argPrefix' = pfx
        /\ argMaxSelectionCount' = maxSelectionCount
        /\ selection' = makeSelection(pfx, historyFileItems, maxSelectionCount)
        /\ selectionSize' = Len(selection')
        /\ UNCHANGED <<historyAsString, historyFileItems, maxy, prefix, selectionCursorPosition,
                       previousSelectionCursorPosition, c, result, done>>

NextFilter == CallMakeSelection

SpecFilter == InitFilter /\ [][NextFilter]_vars

(***************************************************************************)
(* selectionLoop: the session.                                             *)
(***************************************************************************)
\* the lines a session's history is drawn from
SessionLines == { <<97, 98>>, <<98, 97>>, <<98>> }

\* getmaxy(stdscr) of the terminals of the model: no row for matches,
\* MaxVisible - 1 rows and MaxVisible rows
TerminalRows == { Y_OFFSET_ITEMS + 2,
                  Y_OFFSET_ITEMS + 2 + MaxVisible - 1,
                  Y_OFFSET_ITEMS + 2 + MaxVisible }

ResizeKeys == {KEY_TERMINAL_RESIZE}
IgnoredKeys == {KEY_CTRL_A, KEY_CTRL_E, 91}
BackspaceKeys == {KEY_BACKSPACE, 127}
UpKeys == {KEY_UP, 65}
DownKeys == {KEY_DOWN, 66}
EnterKeys == {10}
\* the keys of the model that reach the default case: 'a', 'b' and Escape
DefaultKeys == Alphabet \cup {27}
\* a control key with no case of its own, which reaches the default case too: Ctrl-B
ControlKeys == {2}

\* What wgetch returns: initscr leaves the keypad mode off and keypad() is never
\* called, so a key arrives as its bytes (an arrow key as 27, 91, 65 or 66) and
\* never as a KEY_ code, but for the KEY_RESIZE of a resized terminal.
WgetchKeys == (1..255) \cup {KEY_TERMINAL_RESIZE}

\* (char*)(&c): the bytes of the int c from its lowest byte (little-endian) up to
\* the first zero byte
RECURSIVE KeyAsString(_)
KeyAsString(key) ==
    IF key % 256 = 0 THEN <<>> ELSE <<key % 256>> \o KeyAsString(key \div 256)

strcat(dest, src) == dest \o src

\* printSelection: the list it leaves in selection and the result it returns
printSelection(maxHistoryItems, pfx, items) ==
    LET sel == makeSelection(pfx, items, maxHistoryItems)
    IN  [selection |-> sel,
         result |-> IF Len(sel) > 0 THEN sel[1] ELSE EmptyString]

\* what a read outside the entries written to selection can yield: any pointer
Garbage == <<-2>>
Indeterminate == Range(historyFileItems) \cup {EmptyString, Garbage}

\* Enter that takes the first entry whatever the cursor
ReadSelectionFirst(position) ==
    IF Len(selection) > 0 THEN {selection[1]} ELSE Indeterminate

\* selection[selectionCursorPosition]
ReadSelection(position) ==
    IF 0 <= position /\ position < Len(selection)
    THEN {selection[position + 1]}
    ELSE Indeterminate

\* Up that stops at the first entry
UpCursorStopsAtFirst(position) ==
    IF position > 0
    THEN [cursor |-> position - 1, previous |-> position]
    ELSE [cursor |-> position, previous |-> SELECTION_CURSOR_IN_PROMPT]

\* KEY_UP: the cursor and the previous cursor after the key
UpCursor(position) ==
    IF position > SELECTION_CURSOR_IN_PROMPT
    THEN [cursor |-> position - 1, previous |-> position]
    ELSE [cursor |-> position, previous |-> SELECTION_CURSOR_IN_PROMPT]

\* Down that steps past the last entry before it wraps
DownCursorOffByOne(position, size) ==
    IF (position + 1) <= size THEN position + 1 ELSE 0

\* KEY_DOWN: the cursor after the key
DownCursor(position, size) ==
    IF (position + 1) < size THEN position + 1 ELSE 0

Init ==
    /\ historyFileItems \in SeqsUpTo(SessionLines, MaxSessionHist)
    /\ historyAsString = FileOf(historyFileItems)
    /\ maxy \in TerminalRows
    /\ argPrefix = NULL
    /\ argMaxSelectionCount = getMaxHistoryItems(maxy)
    /\ selection = printSelection(getMaxHistoryItems(maxy), NULL, historyFileItems).selection
    /\ selectionSize = Len(selection)
    /\ prefix = EmptyString
    /\ selectionCursorPosition = SELECTION_CURSOR_IN_PROMPT
    /\ previousSelectionCursorPosition = SELECTION_CURSOR_IN_PROMPT
    /\ c = 0
    /\ result = EmptyString
    /\ done = FALSE

\* case KEY_TERMINAL_RESIZE: wgetch has taken the new size, the case does nothing
KeyTerminalResize ==
    /\ ~done
    /\ c' \in ResizeKeys \cap WgetchKeys
    /\ maxy' \in TerminalRows
    /\ UNCHANGED <<historyAsString, historyFileItems, selection, selectionSize, argPrefix,
                   argMaxSelectionCount, prefix, selectionCursorPosition,
                   previousSelectionCursorPosition, result, done>>

\* case KEY_CTRL_A, KEY_CTRL_E, 91
KeyIgnored ==
    /\ ~done
    /\ c' \in IgnoredKeys \cap WgetchKeys
    /\ UNCHANGED <<historyAsString, historyFileItems, selection, selectionSize, argPrefix,
                   argMaxSelectionCount, maxy, prefix, selectionCursorPosition,
                   previousSelectionCursorPosition, result, done>>

\* the list and the result after prefix changed to newPrefix
Refilter(newPrefix) ==
    LET maxHistoryItems == getMaxHistoryItems(maxy)
        printed == printSelection(maxHistoryItems, newPrefix, historyFileItems)
    IN  /\ prefix' = newPrefix
        /\ argPrefix' = newPrefix
        /\ argMaxSelectionCount' = maxHistoryItems
        /\ selection' = printed.selection
        /\ selectionSize' = Len(printed.selection)
        /\ result' = printed.result

\* Backspace that shortens prefix and keeps the list it had
KeyBackspaceStale ==
    /\ ~done
    /\ c' \in BackspaceKeys \cap WgetchKeys
    /\ prefix' = (IF Len(prefix) > 0 THEN SubSeq(prefix, 1, Len(prefix) - 1) ELSE prefix)
    /\ UNCHANGED <<historyAsString, historyFileItems, selection, selectionSize, argPrefix,
                   argMaxSelectionCount, maxy, selectionCursorPosition,
                   previousSelectionCursorPosition, result, done>>

\* Backspace that puts the cursor back at the prompt
KeyBackspaceResetsCursor ==
    /\ ~done
    /\ c' \in BackspaceKeys \cap WgetchKeys
    /\ Refilter(IF Len(prefix) > 0 THEN SubSeq(prefix, 1, Len(prefix) - 1) ELSE prefix)
    /\ selectionCursorPosition' = SELECTION_CURSOR_IN_PROMPT
    /\ UNCHANGED <<historyAsString, historyFileItems, maxy,
                   previousSelectionCursorPosition, done>>

\* case KEY_BACKSPACE, 127: makeSelection(prefix or NULL) and then printSelection(prefix),
\* which calls makeSelection(prefix) again
KeyBackspace ==
    /\ ~done
    /\ c' \in BackspaceKeys \cap WgetchKeys
    /\ Refilter(IF Len(prefix) > 0 THEN SubSeq(prefix, 1, Len(prefix) - 1) ELSE prefix)
    /\ UNCHANGED <<historyAsString, historyFileItems, maxy, selectionCursorPosition,
                   previousSelectionCursorPosition, done>>

\* case KEY_UP, 65
KeyUp ==
    /\ ~done
    /\ c' \in UpKeys \cap WgetchKeys
    /\ selectionCursorPosition' = UpCursor(selectionCursorPosition).cursor
    /\ previousSelectionCursorPosition' = UpCursor(selectionCursorPosition).previous
    /\ UNCHANGED <<historyAsString, historyFileItems, selection, selectionSize, argPrefix,
                   argMaxSelectionCount, maxy, prefix, result, done>>

\* case KEY_DOWN, 66
KeyDown ==
    /\ ~done
    /\ c' \in DownKeys \cap WgetchKeys
    /\ previousSelectionCursorPosition' = selectionCursorPosition
    /\ selectionCursorPosition' = DownCursor(selectionCursorPosition, selectionSize)
    /\ UNCHANGED <<historyAsString, historyFileItems, selection, selectionSize, argPrefix,
                   argMaxSelectionCount, maxy, prefix, result, done>>

\* case 10
KeyEnter ==
    /\ ~done
    /\ c' \in EnterKeys \cap WgetchKeys
    /\ IF selectionCursorPosition # SELECTION_CURSOR_IN_PROMPT
       THEN /\ result' \in ReadSelection(selectionCursorPosition)
            /\ selection' = <<>>            \* allocSelection(0)
            /\ selectionSize' = 0
       ELSE UNCHANGED <<result, selection, selectionSize>>
    /\ done' = TRUE
    /\ UNCHANGED <<historyAsString, historyFileItems, argPrefix, argMaxSelectionCount, maxy, prefix,
                   selectionCursorPosition, previousSelectionCursorPosition>>

\* a default case that appends 27 as it does every other key
DefaultCaseAppendsEscape(keys, typed) ==
    /\ ~done
    /\ c' \in keys
    /\ Len(prefix) < typed
    /\ Refilter(strcat(prefix, KeyAsString(c')))
    /\ UNCHANGED <<historyAsString, historyFileItems, maxy, selectionCursorPosition,
                   previousSelectionCursorPosition, done>>

\* default, for a key of keys: every key but 27 is appended to prefix; the
\* model stops typing at typed bytes
DefaultCase(keys, typed) ==
    /\ ~done
    /\ c' \in keys
    /\ IF c' # 27
       THEN /\ Len(prefix) < typed
            /\ Refilter(strcat(prefix, KeyAsString(c')))
       ELSE UNCHANGED <<selection, selectionSize, argPrefix, argMaxSelectionCount,
                        prefix, result>>
    /\ UNCHANGED <<historyAsString, historyFileItems, maxy, selectionCursorPosition,
                   previousSelectionCursorPosition, done>>

KeyDefault == DefaultCase(DefaultKeys \cap WgetchKeys, MaxPrefixLen)

Next ==
    \/ KeyTerminalResize
    \/ KeyIgnored
    \/ KeyBackspace
    \/ KeyUp
    \/ KeyDown
    \/ KeyEnter
    \/ KeyDefault

Spec == Init /\ [][Next]_vars

(***************************************************************************)
(* The session with a control key among the keys, over the histories of    *)
(* at most one line.                                                       *)
(***************************************************************************)
InitControl == Init /\ Len(historyFileItems) <= 1

KeyControl == DefaultCase(ControlKeys \cap WgetchKeys, MaxPrefixLen)

NextControl == Next \/ KeyControl

SpecControl == InitControl /\ [][NextControl]_vars

(***************************************************************************)
(* One key typed again and again, up to the size of prefix[500]: strcat    *)
(* does not look at the size, and the append that takes prefix to          *)
(* PREFIX_SIZE bytes writes its terminator past the buffer.                *)
(***************************************************************************)
InitBuffer == Init /\ historyFileItems = <<>>

KeyTyped == DefaultCase({97}, PREFIX_SIZE)

NextBuffer == KeyTyped

SpecBuffer == InitBuffer /\ [][NextBuffer]_vars

(***************************************************************************)
(* hstr: the history file is counted, cut into lines and reversed.         *)
(***************************************************************************)
\* the files of the model: up to MaxFileLen bytes of 'a', 'b' and line feed
Files == UNION {[1..k -> Alphabet \cup {10}] : k \in 0..MaxFileLen}

\* countHistoryLines: the line feeds of history
countHistoryLines(history) ==
    Cardinality({i \in 1..Len(history) : history[i] = 10})

\* strchr(p, 10): the index of the first line feed at or after index pb
\* (from 1), 0 for the NULL it returns when there is none
strchr(history, pb) ==
    IF \E i \in pb..Len(history) : history[i] = 10
    THEN CHOOSE i \in pb..Len(history) :
            history[i] = 10 /\ \A j \in pb..(i - 1) : history[j] # 10
    ELSE 0

\* tokenizeHistory: the loop from pb on; each token ends where its line feed was
RECURSIVE TokenLoop(_, _)
TokenLoop(history, pb) ==
    LET pe == strchr(history, pb)
    IN  IF pe = 0 THEN <<>>
        ELSE <<SubSeq(history, pb, pe - 1)>> \o TokenLoop(history, pe + 1)

tokenizeHistory(history, lines) == TokenLoop(history, 1)

\* reverseCharPointerArray: the swaps for i, i + 1, ... below length/2 (i from 0)
RECURSIVE SwapLoop(_, _, _)
SwapLoop(array, length, i) ==
    IF ~(i < length \div 2) THEN array
    ELSE SwapLoop([array EXCEPT ![i + 1] = array[length - i],
                                ![length - i] = array[i + 1]],
                  length, i + 1)

reverseCharPointerArray(array, length) == SwapLoop(array, length, 0)

InitLoad ==
    /\ historyAsString \in Files
    /\ historyFileItems = <<>>
    /\ selection = <<>>
    /\ selectionSize = 0
    /\ argPrefix = NULL
    /\ argMaxSelectionCount = 0
    /\ maxy = Y_OFFSET_ITEMS + 2
    /\ prefix = EmptyString
    /\ selectionCursorPosition = SELECTION_CURSOR_IN_PROMPT
    /\ previousSelectionCursorPosition = SELECTION_CURSOR_IN_PROMPT
    /\ c = 0
    /\ result = EmptyString
    /\ done = FALSE

\* hstr, up to the call of selectionLoop
LoadHistory ==
    /\ LET itemsCount == countHistoryLines(historyAsString)
           items == tokenizeHistory(historyAsString, itemsCount)
       IN  historyFileItems' = reverseCharPointerArray(items, itemsCount)
    /\ UNCHANGED <<historyAsString, selection, selectionSize, argPrefix,
                   argMaxSelectionCount, maxy, prefix, selectionCursorPosition,
                   previousSelectionCursorPosition, c, result, done>>

NextLoad == LoadHistory

SpecLoad == InitLoad /\ [][NextLoad]_vars

(***************************************************************************)
(* What the filter is to return, stated without the loops.                 *)
(***************************************************************************)
Min(x, y) == IF x < y THEN x ELSE y

StartsWith(line, fragment) ==
    /\ Len(fragment) <= Len(line)
    /\ SubSeq(line, 1, Len(fragment)) = fragment

Contains(line, fragment) ==
    \E k \in 0..(Len(line) - Len(fragment)) :
        SubSeq(line, k + 1, k + Len(fragment)) = fragment

IsPrefixMatch(line) == StartsWith(line, argPrefix)
IsSubstringOnlyMatch(line) == Contains(line, argPrefix) /\ ~StartsWith(line, argPrefix)

\* the indices of I in increasing order
Ascending(I) ==
    [k \in 1..Cardinality(I) |-> CHOOSE i \in I : Cardinality({j \in I : j < i}) = k - 1]

\* the first occurrence of every text of history that satisfies Test, in history order
FirstOccurrences(history, Test(_)) ==
    LET I == {i \in 1..Len(history) :
                /\ Test(history[i])
                /\ \A j \in 1..(i - 1) : history[j] # history[i]}
        order == Ascending(I)
    IN  [k \in 1..Cardinality(I) |-> history[order[k]]]

Truncate(s, limit) == SubSeq(s, 1, Min(limit, Len(s)))

Position(s, x) == CHOOSE i \in 1..Len(s) : s[i] = x

FragmentGiven == argPrefix # NULL /\ argPrefix # EmptyString

\* C1: for a non-empty fragment and a limit >= 0 the filter returns the distinct
\* lines that start with the fragment, in history order, then the distinct lines
\* that contain it at a non-zero offset only, in history order, truncated to the
\* first limit entries; no prefix match comes after a substring-only match.
C1_PhaseOrder ==
    FragmentGiven =>
        /\ selection = Truncate(FirstOccurrences(historyFileItems, IsPrefixMatch)
                                    \o FirstOccurrences(historyFileItems, IsSubstringOnlyMatch),
                                argMaxSelectionCount)
        /\ selectionSize = Len(selection)
        /\ \A i, j \in 1..Len(selection) :
                (IsSubstringOnlyMatch(selection[i]) /\ IsPrefixMatch(selection[j])) => j < i

\* A substring-only match stands before a prefix match in the history and after
\* it in the result, a repeated line was dropped and the limit cut the result.
C1_Witness ==
    /\ FragmentGiven
    /\ selectionSize = argMaxSelectionCount
    /\ \E i, j \in 1..Len(historyFileItems) :
            /\ i < j
            /\ IsSubstringOnlyMatch(historyFileItems[i])
            /\ IsPrefixMatch(historyFileItems[j])
            /\ historyFileItems[i] \in Range(selection)
            /\ historyFileItems[j] \in Range(selection)
            /\ Position(selection, historyFileItems[j]) < Position(selection, historyFileItems[i])
    /\ \E i, j \in 1..Len(historyFileItems) :
            i < j /\ historyFileItems[i] = historyFileItems[j]

\* C2: the list the filter returns never holds the same text twice, whatever the
\* history and the fragment (absent, empty or not), across both phases.
C2_NoDuplicates ==
    \A i, j \in 1..Len(selection) : i # j => selection[i] # selection[j]

\* The history repeats a substring-only match and holds a prefix match, the limit
\* did not cut the result, and the repeated line is in the result.
C2_Witness ==
    /\ FragmentGiven
    /\ selectionSize < argMaxSelectionCount
    /\ \E i, j \in 1..Len(historyFileItems) :
            /\ i < j
            /\ historyFileItems[i] = historyFileItems[j]
            /\ IsSubstringOnlyMatch(historyFileItems[i])
            /\ historyFileItems[i] \in Range(selection)
    /\ \E i \in 1..Len(historyFileItems) : IsPrefixMatch(historyFileItems[i])

\* C3: the filter returns at most limit entries; with limit 0 it returns none
\* and writes none.
C3_Bound ==
    /\ selectionSize <= argMaxSelectionCount
    /\ Len(selection) <= argMaxSelectionCount
    /\ argMaxSelectionCount = 0 => (selection = <<>> /\ selectionSize = 0)

\* The limit cut the result: a line that matches is left out of a full result.
C3_Witness ==
    /\ FragmentGiven
    /\ argMaxSelectionCount > 0
    /\ selectionSize = argMaxSelectionCount
    /\ \E i \in 1..Len(historyFileItems) :
            /\ Contains(historyFileItems[i], argPrefix)
            /\ historyFileItems[i] \notin Range(selection)

AnyLine(line) == TRUE

\* C4: with the fragment absent, and equally with the empty fragment, the filter
\* returns the first min(limit, distinct lines) distinct lines in history order
\* and the substring phase adds no entry.
C4_EmptyFragment ==
    (argPrefix = NULL \/ argPrefix = EmptyString) =>
        /\ selection = Truncate(FirstOccurrences(historyFileItems, AnyLine),
                                argMaxSelectionCount)
        /\ Len(selection) = Min(argMaxSelectionCount, Cardinality(Range(historyFileItems)))
        /\ selection = PrefixLoop(argPrefix, historyFileItems, argMaxSelectionCount, 0,
                                  [sel |-> <<>>, set |-> hs_init]).sel

\* The empty string was the fragment, the history repeats a line and the limit
\* left room for the substring phase to run.
C4_Witness ==
    /\ argPrefix = EmptyString
    /\ selectionSize < argMaxSelectionCount
    /\ selectionSize >= 2
    /\ Len(historyFileItems) > selectionSize

(***************************************************************************)
(* The session.                                                            *)
(***************************************************************************)
AtPrompt == selectionCursorPosition = SELECTION_CURSOR_IN_PROMPT
\* AtIndex(k): an index into the current list
AtIndex == 0 <= selectionCursorPosition /\ selectionCursorPosition < Len(selection)

FirstOrEmpty(list) == IF Len(list) > 0 THEN list[1] ELSE EmptyString

\* C5: an Accept with the cursor at the prompt, in the initial state too, ends
\* the session with the first entry of the current list, or with the empty
\* string when the list is empty.
C5_AcceptAtPrompt ==
    (done /\ AtPrompt) => result = FirstOrEmpty(selection)

\* C6: an Accept with the cursor at index k of the current list ends the
\* session with the k-th entry of the list as result, and no event is
\* processed after the session ended.
C6_AcceptAtIndex ==
    [][ /\ ~done
        /\ (done' /\ AtIndex) => result' = selection[selectionCursorPosition + 1] ]_vars

\* Enter was pressed with the cursor on the second or a later entry of the list
\* the last call of the filter left, and that entry is the result.
C6_Witness ==
    LET list == makeSelection(argPrefix, historyFileItems, argMaxSelectionCount)
    IN  /\ done
        /\ c \in EnterKeys
        /\ selectionCursorPosition >= 1
        /\ selectionCursorPosition < Len(list)
        /\ result = list[selectionCursorPosition + 1]
        /\ result # list[1]

\* C7: while the session runs, the cursor is at the prompt or an index into the
\* current list.
C7_CursorInRange ==
    ~done => (AtPrompt \/ AtIndex)

\* C8: a Char or Backspace pressed with the cursor at index k of the list, which
\* leaves a list with no entry at index k, puts the cursor at the prompt in the
\* same step.
C8_ClampOnRecompute ==
    [][ ( /\ c' \in BackspaceKeys \cup (DefaultKeys \ {27})
          /\ AtIndex
          /\ selectionCursorPosition >= Len(selection') )
        => selectionCursorPosition' = SELECTION_CURSOR_IN_PROMPT ]_vars

\* C9: Down moves the cursor from index k of a list of n > 0 entries to
\* (k + 1) mod n, and from the prompt to index 0.
C9_Down ==
    [][ (c' \in DownKeys /\ Len(selection) > 0) =>
            /\ AtIndex => selectionCursorPosition' =
                              (selectionCursorPosition + 1) % Len(selection)
            /\ AtPrompt => selectionCursorPosition' = 0 ]_vars

\* Down was pressed on the last of three entries and the cursor is on the first.
C9_Witness ==
    /\ c \in DownKeys
    /\ Len(selection) = 3
    /\ previousSelectionCursorPosition = 2
    /\ selectionCursorPosition = 0

\* C10: Down with an empty list leaves the cursor at the prompt.
C10_DownOnEmptyList ==
    [][ (c' \in DownKeys /\ Len(selection) = 0 /\ AtPrompt) =>
            selectionCursorPosition' = SELECTION_CURSOR_IN_PROMPT ]_vars

\* C11: Up moves the cursor from index k > 0 to k - 1 and from index 0 to the
\* prompt; at the prompt it changes neither the cursor nor the fragment nor the
\* list (it does not wrap to the last entry).
C11_Up ==
    [][ c' \in UpKeys =>
            /\ selectionCursorPosition > 0 =>
                    selectionCursorPosition' = selectionCursorPosition - 1
            /\ selectionCursorPosition = 0 =>
                    selectionCursorPosition' = SELECTION_CURSOR_IN_PROMPT
            /\ AtPrompt =>
                    /\ selectionCursorPosition' = SELECTION_CURSOR_IN_PROMPT
                    /\ UNCHANGED <<prefix, selection, selectionSize, result>> ]_vars

\* Up was pressed on the third entry and the cursor is on the second.
C11_Witness ==
    /\ c \in UpKeys
    /\ previousSelectionCursorPosition = 2
    /\ selectionCursorPosition = 1
    /\ Len(selection) = 3

\* the list of the initial state of a session on a terminal of rows rows
InitialList(rows) ==
    printSelection(getMaxHistoryItems(rows), NULL, historyFileItems).selection

\* C12: a Backspace that leaves the fragment empty leaves the list the session
\* started with (the unfiltered list for the rows of the terminal), and a further
\* Backspace on the empty fragment leaves fragment and list the same.
C12_BackspaceToEmpty ==
    [][ c' \in BackspaceKeys =>
            /\ prefix' = EmptyString => selection' = InitialList(maxy)
            /\ prefix = EmptyString =>
                    /\ prefix' = EmptyString
                    /\ c \in BackspaceKeys => selection' = selection ]_vars

\* Backspace has emptied the fragment, the filter ran with the empty string,
\* and the list is shorter than the history (a repeated line, or the limit).
C12_Witness ==
    /\ c \in BackspaceKeys
    /\ prefix = EmptyString
    /\ argPrefix = EmptyString
    /\ Len(selection) >= 2
    /\ Len(historyFileItems) > Len(selection)

Printable == 32..126

\* C13: a printable key appends exactly its character to the fragment and sets
\* the list to the filter's result for the new fragment.
C13_CharAppends ==
    [][ c' \in Printable =>
            /\ prefix' = Append(prefix, c')
            /\ selection' = makeSelection(prefix', historyFileItems,
                                          getMaxHistoryItems(maxy)) ]_vars

\* C14: Escape (27) ends the session at once with the empty string as result.
C14_AbortEnds ==
    [][ c' = 27 => (done' /\ result' = EmptyString) ]_vars

\* C14, amended: Escape (27) ends nothing: fragment, list, cursor and result stay
\* and the session runs on; the session ends on Enter only.
C14_EscapeIgnored ==
    [][ /\ c' = 27 => /\ ~done'
                      /\ UNCHANGED <<prefix, selection, selectionSize, result,
                                     selectionCursorPosition>>
        /\ done' => c' \in EnterKeys ]_vars

\* Escape was pressed in a session with a fragment typed and the cursor on an entry.
C14_Witness ==
    /\ c = 27
    /\ ~done
    /\ prefix # EmptyString
    /\ AtIndex

\* the keys of the model that are no printable character, Backspace, Up, Down,
\* Accept, Abort or Resize
UnrecognizedKeys == ControlKeys \cup {KEY_CTRL_A, KEY_CTRL_E}

\* C15: a key that is none of the recognized ones leaves fragment, list and
\* cursor as they were, and the fragment never holds a control character.
C15_UnrecognizedIgnored ==
    [][ /\ c' \in UnrecognizedKeys =>
                UNCHANGED <<prefix, selection, selectionSize, selectionCursorPosition>>
        /\ \A i \in 1..Len(prefix') : prefix'[i] >= 32 ]_vars

\* C16: with an empty history the list is empty in every state and an Accept
\* yields the empty string.
C16_EmptyHistory ==
    historyFileItems = <<>> =>
        /\ selection = <<>>
        /\ done => result = EmptyString

\* C17: the list never holds more entries than the terminal has rows for
\* matches, right after a resize too.
C17_ListFitsTerminal ==
    Len(selection) <= getMaxHistoryItems(maxy)

Reverse(s) == [i \in 1..Len(s) |-> s[Len(s) + 1 - i]]

\* the pieces of content between its line feeds, without a trailing empty piece
SplitLines(content) ==
    LET feeds == {i \in 1..Len(content) : content[i] = 10}
        cuts == Ascending(feeds)
        n == Cardinality(feeds)
        start(k) == IF k = 1 THEN 1 ELSE cuts[k - 1] + 1
        stop(k) == IF k = n + 1 THEN Len(content) ELSE cuts[k] - 1
        pieces == [k \in 1..(n + 1) |-> SubSeq(content, start(k), stop(k))]
    IN  IF pieces[n + 1] = <<>> THEN SubSeq(pieces, 1, n) ELSE pieces

\* C18: the history handed to the session is every line of the file, split on
\* line feeds without a trailing empty line, in reversed order, whether or not
\* the file ends with a line feed.
C18_EveryLineReversed ==
    [][ historyFileItems' = Reverse(SplitLines(historyAsString)) ]_vars

\* C19: only Up and Down change the cursor; Up and Down change neither the
\* fragment nor the list.
C19_CursorFrame ==
    [][ /\ c' \notin (UpKeys \cup DownKeys) =>
                selectionCursorPosition' = selectionCursorPosition
        /\ c' \in (UpKeys \cup DownKeys) =>
                UNCHANGED <<prefix, selection, selectionSize, argPrefix,
                            argMaxSelectionCount>> ]_vars

\* A character was typed with the cursor on the second or a later entry, the
\* list changed under it and the cursor is where it was.
C19_Witness ==
    /\ c \in Alphabet
    /\ prefix # EmptyString
    /\ selectionCursorPosition >= 1
    /\ selection # InitialList(maxy)

\* C20: the fragment never grows beyond the 499 characters prefix[500] holds.
C20_PrefixFitsBuffer ==
    Len(prefix) <= PREFIX_SIZE - 1

====
